---- MODULE Spec2Model ----
(***************************************************************************)
(* Model of app/src/main/cpp/whisper_jni.cpp: the JNI bridge that loads a  *)
(* whisper model into the process-wide pointer `ctx`, decodes an audio     *)
(* file (read_audio_file) and assembles the transcript of its segments.    *)
(*                                                                         *)
(* Strings are TLA+ strings (\o, Len and SubSeq act on them).  A float     *)
(* sample is kept as its numerator over PcmScale, which is exact for every *)
(* 16-bit value.  The file system, the model loader and the inference      *)
(* engine are the environment: each call draws what it finds there.        *)
(***************************************************************************)
EXTENDS Integers, Sequences, FiniteSets, TLC

VARIABLES
    ctx,            \* static whisper_context* ctx; NULLPTR or an address
    live,           \* contexts created by whisper_init_from_file and not yet freed
    badFree,        \* whisper_free was handed a context that was not live
    crashed,        \* the process was killed by an out-of-bounds write
    lastLifecycle,  \* outcome of the most recent nativeInitModel/nativeFreeModel
    last,           \* observation of the most recent bridge call
    pc,             \* per thread: the line its call in flight has reached
    tl,             \* per thread: the locals of its call in flight
    usedDead        \* an inference entry point was handed a null or freed context

\* The part of the state only the interleaved calls of SpecConc move.
threadVars == <<pc, tl, usedDead>>

vars == <<ctx, live, badFree, crashed, lastLifecycle, last, pc, tl, usedDead>>

----------------------------------------------------------------------------
(* Bounds of the model. *)

\* Number of distinct addresses the allocator can hand out for a context.
MaxCtx == 2
\* Largest number of segments one inference run produces.
MaxSegs == 2
\* Number of leading samples of the decoded buffer kept in the observation.
HeadLen == 2
\* Number of host threads calling into the bridge at once.
MaxThreads == 2

(* Program constants. *)

MinSamples == 1000
RequiredChannels == 1
RequiredSampleRate == 16000
PcmScale == 32768
SampleBytes == 2

NULLPTR == 0
Addrs == 1..MaxCtx
Threads == 1..MaxThreads

\* The locals of a call: the context pointer it passed or obtained, the
\* segment count it read and its loop index.
NoLocals == [c |-> NULLPTR, n |-> 0, i |-> 0]

----------------------------------------------------------------------------
(* The environment a call can meet. *)

\* Audio paths handed to nativeTranscribeAudio.
Paths == {"a.wav", "d.x/b.y.wav", "a.mp3", "a", "a.wav.bak", "a.WAV", "d.wav/f"}

\* Byte pattern of a file's content, repeated over its whole length.
BytePattern == <<1, 128, 255, 127, 0, 0, 254, 255>>

NoFile == [kind |-> "missing", channels |-> 0, sampleRate |-> 0, frames |-> 0, size |-> 0]

\* Well-formed WAV containers, by what their header declares.
WavFiles ==
    [kind : {"wav"}, channels : {1, 2}, sampleRate : {16000, 44100},
     frames : {0, 999, 1000}, size : {0}]

\* Openable files that are no WAV container, by their size in bytes.
RawFiles ==
    [kind : {"raw"}, channels : {0}, sampleRate : {0}, frames : {0},
     size : {0, 1, 2, 3, 1998, 1999, 2000, 2001}]

Files == {NoFile} \cup WavFiles \cup RawFiles

\* Model files handed to nativeInitModel.
ModelFiles ==
    { [path |-> "ggml-base.bin", loadable |-> TRUE],
      [path |-> "missing.bin", loadable |-> FALSE] }

\* Texts a segment can carry.
SegTexts == {"Hello", "world", "No speech detected"}

RECURSIVE SeqsUpTo(_, _)
SeqsUpTo(S, n) ==
    IF n = 0 THEN {<<>>}
    ELSE LET R == SeqsUpTo(S, n - 1)
         IN R \cup {Append(s, x) : s \in {r \in R : Len(r) = n - 1}, x \in S}

\* What one whisper_full run leaves: its return code and the segments it stored
\* (a failing run may have stored some before it failed).
InferOutcomes == [rc : {0, 1}, segs : SeqsUpTo(SegTexts, MaxSegs)]

NoInfer == [rc |-> 0, segs |-> <<>>]
NoPcm == [size |-> 0, head |-> <<>>]

----------------------------------------------------------------------------
(* C library helpers, as the code uses them. *)

Max(S) == CHOOSE x \in S : \A y \in S : y <= x

\* strrchr: the suffix of s starting at the last occurrence of c, "" for NULL.
strrchr(s, c) ==
    LET I == {i \in 1..Len(s) : SubSeq(s, i, i) = c}
    IN IF I = {} THEN "" ELSE SubSeq(s, Max(I), Len(s))

\* strcmp: 0 exactly when the two strings are equal.
strcmp(a, b) == IF a = b THEN 0 ELSE 1

----------------------------------------------------------------------------
(* read_audio_file (lines 131-210). *)

\* Byte i (from 0) of a file's content.
FileByte(i) == BytePattern[(i % Len(BytePattern)) + 1]

\* The int16_t the machine reads at sample index i (from 0): two bytes, low first.
Int16At(i) ==
    LET u == FileByte(SampleBytes * i) + 256 * FileByte(SampleBytes * i + 1)
    IN IF u >= 32768 THEN u - 65536 ELSE u

\* drwav_init_file: true exactly for a file that opens and parses as a WAV container.
drwav_init_file(f) == f.kind = "wav"

\* The is_open test left out.
ifstream_is_open_unchecked(f) == TRUE

\* std::ifstream file(filename, binary); file.is_open()
ifstream_is_open(f) == f.kind # "missing"

\* A std::vector is kept as its size(); element i (from 0) of a buffer decoded
\* from a file is a function of the file's bytes alone, given by Pcmf32At.
EmptyVec == [size |-> 0]

\* Line 200: pcmf32[i] = static_cast<float>(pcm16[i]) / 32768.0f, as the
\* numerator of a fraction over PcmScale (the library's 16-bit conversion of
\* line 161 is the same division).
Pcmf32At(i) == Int16At(i)

\* pcmf32 after resize(n_samples) and drwav_read_pcm_frames_f32 filled its slots.
drwav_read_pcm_frames_f32(n_samples) == [size |-> n_samples]

\* The else branch of drwav_init_file (lines 175-204): the file read as raw PCM.
\* file.read writes file_size bytes into a buffer of SampleBytes * pcm16.size()
\* bytes: one byte past its end when file_size is odd, which `ub` resolves.
ReadRawPcm(f, ub) ==
    IF ~ifstream_is_open(f)
    THEN [status |-> "fail", pcmf32 |-> EmptyVec, trace |-> <<"ifstream_open">>]
    ELSE LET file_size == f.size
             n16 == file_size \div SampleBytes
             pcm16 == [size |-> n16]
             overflow == file_size > SampleBytes * pcm16.size
         IN IF overflow /\ ub = "crash"
            THEN [status |-> "crash", pcmf32 |-> EmptyVec,
                  trace |-> <<"ifstream_open", "ifstream_read">>]
            ELSE [status |-> "ok",
                  pcmf32 |-> [size |-> pcm16.size],
                  trace |-> <<"ifstream_open", "ifstream_read">>]

\* A validation failure downgraded to the raw-PCM reading of the file.
ReadWav_downgrade(f) ==
    IF f.channels # RequiredChannels \/ f.sampleRate # RequiredSampleRate
    THEN [status |-> "ok", pcmf32 |-> [size |-> f.size \div SampleBytes],
          trace |-> <<"drwav_init_file", "drwav_uninit", "ifstream_open",
                      "ifstream_read">>]
    ELSE [status |-> "ok",
          pcmf32 |-> drwav_read_pcm_frames_f32(f.frames),
          trace |-> <<"drwav_init_file", "drwav_read_pcm_frames_f32", "drwav_uninit">>]

\* The branch taken once drwav_init_file succeeded (lines 139-173).
ReadWav(f) ==
    IF f.channels # RequiredChannels
    THEN [status |-> "fail", pcmf32 |-> EmptyVec,
          trace |-> <<"drwav_init_file", "LOGE: WAV file must be mono",
                      "drwav_uninit">>]
    ELSE IF f.sampleRate # RequiredSampleRate
    THEN [status |-> "fail", pcmf32 |-> EmptyVec,
          trace |-> <<"drwav_init_file", "LOGE: WAV file must be 16kHz",
                      "drwav_uninit">>]
    ELSE [status |-> "ok",
          pcmf32 |-> drwav_read_pcm_frames_f32(f.frames),
          trace |-> <<"drwav_init_file", "drwav_read_pcm_frames_f32", "drwav_uninit">>]

\* Any extension accepted.
IsWavExt_any(filename) == strrchr(filename, ".") # ""

\* ext && strcmp(ext, ".wav") == 0
IsWavExt(filename) ==
    LET ext == strrchr(filename, ".")
    IN ext # "" /\ strcmp(ext, ".wav") = 0

read_audio_file(filename, f, ub) ==
    IF IsWavExt(filename)
    THEN IF drwav_init_file(f)
         THEN ReadWav(f)
         ELSE LET r == ReadRawPcm(f, ub)
              IN [r EXCEPT !.trace = <<"drwav_init_file">> \o r.trace]
    ELSE [status |-> "fail", pcmf32 |-> EmptyVec, trace |-> <<>>]

\* The ways the out-of-bounds write of an odd-sized raw file can end.
UbOutcomes == {"benign", "crash"}

----------------------------------------------------------------------------
(* The inference engine's entry points, as the bridge calls them. *)

\* whisper_free(c): c stops being live; freeing a context that is not live is
\* a double free.
FreeLive(c) == live \ {c}
FreeBad(c) == badFree \/ c \notin live

\* whisper_full_n_segments after a run that stored segs.
whisper_full_n_segments(segs) == Len(segs)

\* whisper_full_get_segment_text(ctx, i), i from 0.
whisper_full_get_segment_text(segs, i) == segs[i + 1]

\* The loop putting each segment in front of the text built so far.
RECURSIVE SegmentLoop_prepend(_, _, _, _)
SegmentLoop_prepend(result, segs, i, n_segments) ==
    IF i < n_segments
    THEN SegmentLoop_prepend((whisper_full_get_segment_text(segs, i) \o " ") \o result,
                             segs, i + 1, n_segments)
    ELSE result

\* The loop of lines 107-112, from index i with `result` built so far.
RECURSIVE SegmentLoop(_, _, _, _)
SegmentLoop(result, segs, i, n_segments) ==
    IF i < n_segments
    THEN SegmentLoop((result \o whisper_full_get_segment_text(segs, i)) \o " ",
                     segs, i + 1, n_segments)
    ELSE result

\* One "whisper_full_get_segment_text" event per loop iteration.
SegmentEvents(n_segments) == [i \in 1..n_segments |-> "whisper_full_get_segment_text"]

\* The leading samples of pcmf32 and its size, as the observation keeps them.
PcmView(pcmf32) ==
    [size |-> pcmf32.size,
     head |-> [i \in 1..(IF pcmf32.size < HeadLen THEN pcmf32.size ELSE HeadLen)
                 |-> Pcmf32At(i - 1)]]

NoModel == [path |-> "", loadable |-> FALSE]

\* The call observed in o reported a failure: "Error: ..." or JNI_FALSE.
Failed(o) ==
    \/ o.ret = "JNI_FALSE"
    \/ /\ o.op = "transcribe"
       /\ o.ret \in {"Error: Model not initialized",
                     "Error: Failed to read audio file",
                     "Error: Audio file too short",
                     "Error: Failed to process audio"}

\* What a call leaves for inspection: its arguments, what it found in the
\* environment, the pointer it started from, the calls it made in order, the
\* decoded buffer, and what it returned (returned is FALSE when the process
\* died inside the call).
Observation(op, path, model, f, inf, trace, pcm, returned, ret) ==
    [op |-> op, prev_op |-> last.op, prev_failed |-> Failed(last),
     path |-> path, model |-> model, file |-> f,
     inf |-> inf, pre_ctx |-> ctx, trace |-> trace, pcm |-> pcm,
     returned |-> returned, ret |-> ret]

----------------------------------------------------------------------------
(* The state after the library is loaded: ctx = nullptr (line 19). *)

Init ==
    /\ ctx = NULLPTR
    /\ live = {}
    /\ badFree = FALSE
    /\ crashed = FALSE
    /\ lastLifecycle = "none"
    /\ last = [op |-> "none", prev_op |-> "none", prev_failed |-> FALSE,
               path |-> "", model |-> NoModel, file |-> NoFile,
               inf |-> NoInfer, pre_ctx |-> NULLPTR, trace |-> <<>>,
               pcm |-> NoPcm, returned |-> TRUE, ret |-> ""]
    /\ pc = [t \in Threads |-> "idle"]
    /\ tl = [t \in Threads |-> NoLocals]
    /\ usedDead = FALSE

----------------------------------------------------------------------------
(* nativeInitModel (lines 27-48). *)

\* The old context overwritten without being freed.
InitFreesOld_never == FALSE

\* Lines 32-35: the context loaded before the call, if any, is freed.
InitFreesOld == ctx # NULLPTR

\* whisper_init_from_file: the addresses it can return for model file m; none
\* (a null return) when the file does not load or no address is left.
whisper_init_from_file(m, liveNow) ==
    IF m.loadable THEN Addrs \ liveNow ELSE {}

\* The null check of line 41 left out.
InitReturn_unchecked(c) == "JNI_TRUE"

\* Lines 41-47: the value returned for the pointer line 38 stored.
InitReturn(c) == IF c = NULLPTR THEN "JNI_FALSE" ELSE "JNI_TRUE"

nativeInitModel ==
    /\ ~crashed
    /\ \E m \in ModelFiles :
         LET liveAfterFree == IF InitFreesOld THEN FreeLive(ctx) ELSE live
             badAfterFree == IF InitFreesOld THEN FreeBad(ctx) ELSE badFree
             trace == <<"GetStringUTFChars">>
                      \o (IF InitFreesOld THEN <<"whisper_free">> ELSE <<>>)
                      \o <<"whisper_init_from_file", "ReleaseStringUTFChars">>
             fresh == whisper_init_from_file(m, liveAfterFree)
         IN \E a \in (IF fresh = {} THEN {NULLPTR} ELSE fresh) :
              /\ ctx' = a
              /\ live' = liveAfterFree \cup ({a} \ {NULLPTR})
              /\ badFree' = badAfterFree
              /\ lastLifecycle' =
                   (IF InitReturn(a) = "JNI_TRUE" THEN "init_ok" ELSE "init_failed")
              /\ last' = Observation("init", m.path, m, NoFile, NoInfer, trace,
                                     NoPcm, TRUE, InitReturn(a))
    /\ UNCHANGED <<crashed, threadVars>>

----------------------------------------------------------------------------
(* nativeFreeModel (lines 119-126). *)

\* Line 121: the guard of the free.
FreeGuard == ctx # NULLPTR

\* The pointer left dangling after the free.
CtxAfterFree_dangling == ctx

\* Line 123: the pointer after a free.
CtxAfterFree == NULLPTR

nativeFreeModel ==
    /\ ~crashed
    /\ IF FreeGuard
       THEN /\ live' = FreeLive(ctx)
            /\ badFree' = FreeBad(ctx)
            /\ ctx' = CtxAfterFree
            /\ last' = Observation("free", "", NoModel, NoFile, NoInfer,
                                   <<"whisper_free">>, NoPcm, TRUE, "void")
       ELSE /\ UNCHANGED <<ctx, live, badFree>>
            /\ last' = Observation("free", "", NoModel, NoFile, NoInfer,
                                   <<>>, NoPcm, TRUE, "void")
    /\ lastLifecycle' = "free"
    /\ UNCHANGED <<crashed, threadVars>>

----------------------------------------------------------------------------
(* nativeTranscribeAudio (lines 51-116). *)

\* The ready check left out.
NotInitialized_skipped == FALSE

\* Line 53: the ready check.
NotInitialized == ctx = NULLPTR

\* The length check with the boundary on the wrong side.
TooShort_inclusive(pcmf32) == pcmf32.size <= MinSamples

\* Line 72: the length check.
TooShort(pcmf32) == pcmf32.size < MinSamples

\* The release forgotten on the too-short exit.
ExitTrace_leak(stage) ==
    IF stage = "short" THEN <<"NewStringUTF">>
    ELSE <<"ReleaseStringUTFChars", "NewStringUTF">>

\* The last two calls of each exit that acquired the path: lines 65-66
\* ("read"), 74-75 ("short"), 92-93 ("infer"), 103-104 ("nospeech") and
\* 114-115 ("done").
ExitTrace(stage) == <<"ReleaseStringUTFChars", "NewStringUTF">>

\* The context dropped by a transcription.
CtxAfterTranscribe_reset == NULLPTR

\* `ctx` after a transcription: no line of the handler assigns it.
CtxAfterTranscribe == ctx

\* The zero-segment case of lines 101-105 left out.
AssembleResult_nosentinel(segs) ==
    LET n_segments == whisper_full_n_segments(segs)
    IN [ret |-> SegmentLoop("", segs, 0, n_segments), exit |-> "done",
        trace |-> <<"whisper_full_n_segments">> \o SegmentEvents(n_segments)]

\* Lines 96-115: what is returned after a whisper_full that returned 0.
AssembleResult(segs) ==
    LET n_segments == whisper_full_n_segments(segs)
    IN IF n_segments = 0
       THEN [ret |-> "No speech detected", exit |-> "nospeech",
             trace |-> <<"whisper_full_n_segments">>]
       ELSE [ret |-> SegmentLoop("", segs, 0, n_segments), exit |-> "done",
             trace |-> <<"whisper_full_n_segments">> \o SegmentEvents(n_segments)]

\* The return code of whisper_full ignored.
InferResult_unchecked(inf) ==
    LET a == AssembleResult(inf.segs)
    IN [ret |-> a.ret, exit |-> a.exit, trace |-> <<"whisper_full">> \o a.trace]

\* whisper_full called again after it failed.
InferResult_retry(inf) ==
    IF inf.rc # 0
    THEN [ret |-> "Error: Failed to process audio", exit |-> "infer",
          trace |-> <<"whisper_full", "whisper_full">>]
    ELSE LET a == AssembleResult(inf.segs)
         IN [ret |-> a.ret, exit |-> a.exit, trace |-> <<"whisper_full">> \o a.trace]

\* Lines 89-115: inference on a buffer that passed the length check.
InferResult(inf) ==
    IF inf.rc # 0
    THEN [ret |-> "Error: Failed to process audio", exit |-> "infer",
          trace |-> <<"whisper_full">>]
    ELSE LET a == AssembleResult(inf.segs)
         IN [ret |-> a.ret, exit |-> a.exit, trace |-> <<"whisper_full">> \o a.trace]

nativeTranscribeAudio ==
    /\ ~crashed
    /\ \E audioPath \in Paths, f \in Files :
         IF NotInitialized
         THEN /\ last' = Observation("transcribe", audioPath, NoModel, f, NoInfer,
                                     <<"NewStringUTF">>, NoPcm, TRUE,
                                     "Error: Model not initialized")
              /\ UNCHANGED crashed
         ELSE \E ub \in UbOutcomes :
              LET d == read_audio_file(audioPath, f, ub)
                  acquired == <<"GetStringUTFChars", "read_audio_file">> \o d.trace
              IN IF d.status = "crash"
                 THEN /\ crashed' = TRUE
                      /\ last' = Observation("transcribe", audioPath, NoModel, f,
                                             NoInfer, acquired, NoPcm, FALSE, "")
                 ELSE IF d.status = "fail"
                 THEN /\ last' = Observation("transcribe", audioPath, NoModel, f,
                                             NoInfer, acquired \o ExitTrace("read"),
                                             NoPcm, TRUE,
                                             "Error: Failed to read audio file")
                      /\ UNCHANGED crashed
                 ELSE IF TooShort(d.pcmf32)
                 THEN /\ last' = Observation("transcribe", audioPath, NoModel, f,
                                             NoInfer, acquired \o ExitTrace("short"),
                                             PcmView(d.pcmf32), TRUE,
                                             "Error: Audio file too short")
                      /\ UNCHANGED crashed
                 ELSE \E inf \in InferOutcomes :
                      LET r == InferResult(inf)
                      IN /\ last' = Observation("transcribe", audioPath, NoModel, f,
                                                inf,
                                                acquired \o r.trace \o ExitTrace(r.exit),
                                                PcmView(d.pcmf32), TRUE, r.ret)
                         /\ UNCHANGED crashed
    /\ ctx' = CtxAfterTranscribe
    /\ UNCHANGED <<live, badFree, lastLifecycle, threadVars>>

----------------------------------------------------------------------------

Next ==
    \/ nativeInitModel
    \/ nativeTranscribeAudio
    \/ nativeFreeModel

Spec == Init /\ [][Next]_vars

----------------------------------------------------------------------------
(* Vocabulary of the properties. *)

\* The call named e was made by the most recent bridge call.
Called(e) == \E i \in 1..Len(last.trace) : last.trace[i] = e

\* The position of the first call named e in the most recent bridge call.
FirstCall(e) == CHOOSE i \in 1..Len(last.trace) : 
                   /\ last.trace[i] = e
                   /\ \A j \in 1..(i - 1) : last.trace[j] # e

\* The path ends in ".wav".
HasWavSuffix(p) == Len(p) >= 4 /\ SubSeq(p, Len(p) - 3, Len(p)) = ".wav"

Transcribed == last.op = "transcribe"
Loaded == last.pre_ctx # NULLPTR

\* A well-formed WAV file, mono, 16000 Hz.
ValidWav(f) == f.kind = "wav" /\ f.channels = 1 /\ f.sampleRate = 16000

----------------------------------------------------------------------------
(* C1: a transcribeAudio call made while no model is loaded (no successful  *)
(* initModel yet, the last initModel failed, or freeModel was called since) *)
(* returns exactly "Error: Model not initialized", for every audio path and *)
(* file, and does not invoke the audio decoder.                             *)
C1_NotInitialized ==
    (Transcribed /\ lastLifecycle \in {"none", "init_failed", "free"})
        => /\ last.returned
           /\ last.ret = "Error: Model not initialized"
           /\ ~Called("read_audio_file")
           /\ ~Called("drwav_init_file")
           /\ ~Called("ifstream_open")

\* A good audio file transcribed after a failed initModel.
C1_Witness ==
    /\ Transcribed
    /\ lastLifecycle = "init_failed"
    /\ last.path = "a.wav"
    /\ ValidWav(last.file) /\ last.file.frames = 1000
    /\ last.ret = "Error: Model not initialized"

----------------------------------------------------------------------------
(* C3: at most one model context is live, and it is the one `ctx` holds; an *)
(* initModel made while a context is loaded frees it before creating the    *)
(* new one, so a successful initModel leaves exactly one live context       *)
(* whether or not one was loaded before.                                    *)
C3_SingleContext ==
    /\ Cardinality(live) <= 1
    /\ live = (IF ctx = NULLPTR THEN {} ELSE {ctx})
    /\ (last.op = "init" /\ Loaded)
          => /\ Called("whisper_free")
             /\ FirstCall("whisper_free") < FirstCall("whisper_init_from_file")
    /\ (last.op = "init" /\ last.ret = "JNI_TRUE") => Cardinality(live) = 1

\* A second successful initModel right after a first one.
C3_Witness ==
    /\ last.op = "init" /\ last.prev_op = "init"
    /\ Loaded
    /\ last.ret = "JNI_TRUE"
    /\ Cardinality(live) = 1

----------------------------------------------------------------------------
(* C4: initModel returns true exactly when a new context was created and is *)
(* retained in `ctx`; when creation fails it returns false and the session  *)
(* is unloaded, also when a context was loaded before.  So the session is   *)
(* ready iff the most recent lifecycle call was a successful initModel.     *)
C4_InitOutcome ==
    /\ last.op = "init" =>
          /\ last.ret = "JNI_TRUE" <=> (ctx # NULLPTR /\ ctx \in live)
          /\ last.ret = "JNI_FALSE" <=> (ctx = NULLPTR /\ live = {})
          /\ last.ret = "JNI_TRUE" <=> last.model.loadable
    /\ (ctx # NULLPTR) <=> (lastLifecycle = "init_ok")

\* A failed initModel made while a context was loaded.
C4_Witness ==
    /\ last.op = "init"
    /\ Loaded
    /\ last.ret = "JNI_FALSE"
    /\ ctx = NULLPTR

----------------------------------------------------------------------------
(* C5: freeModel frees a loaded context once and leaves the session         *)
(* unloaded; called while unloaded it frees nothing and changes nothing; no *)
(* context is ever freed twice.                                             *)
C5_FreeIdempotent ==
    /\ ~badFree
    /\ last.op = "free" =>
          /\ ctx = NULLPTR
          /\ live = {}
          /\ Loaded => last.trace = <<"whisper_free">>
          /\ ~Loaded => last.trace = <<>>

\* A second freeModel right after a first one.
C5_Witness ==
    /\ last.op = "free" /\ last.prev_op = "free"
    /\ ~Loaded
    /\ last.trace = <<>>

----------------------------------------------------------------------------
(* What the decoder is expected to produce, stated from the file alone. *)

\* The number of samples a file holds: the frames of a WAV container, half
\* the bytes (rounded down) of a file read as raw PCM.
ExpectedSamples(f) ==
    IF f.kind = "wav" THEN f.frames ELSE f.size \div 2

\* The call decoded its file successfully.
DecodedOk ==
    /\ Transcribed /\ Loaded /\ last.returned
    /\ HasWavSuffix(last.path)
    /\ ValidWav(last.file) \/ last.file.kind = "raw"

ErrorStrings ==
    {"Error: Model not initialized", "Error: Failed to read audio file",
     "Error: Audio file too short", "Error: Failed to process audio"}

\* Each segment's text followed by one space, first segment first.
RECURSIVE Joined(_)
Joined(segs) ==
    IF segs = <<>> THEN "" ELSE (Head(segs) \o " ") \o Joined(Tail(segs))

----------------------------------------------------------------------------
(* C2, as stated: for a valid mono 16000 Hz WAV file of at least 1000       *)
(* samples, transcribeAudio with a model loaded returns a non-empty         *)
(* transcript or "No speech detected", never a string starting "Error:".    *)
C2_Original ==
    (/\ Transcribed /\ Loaded
     /\ HasWavSuffix(last.path)
     /\ ValidWav(last.file) /\ last.file.frames >= 1000)
        => /\ last.returned
           /\ Len(last.ret) > 0
           /\ ~(Len(last.ret) >= 6 /\ SubSeq(last.ret, 1, 6) = "Error:")

(* C2, amended: for such a file the call reaches inference; it returns      *)
(* "Error: Failed to process audio" exactly when whisper_full returns       *)
(* non-zero, and otherwise "No speech detected" (no segment) or the         *)
(* non-empty transcript; it never returns one of the three other errors.    *)
C2_ValidWavResult ==
    (/\ Transcribed /\ Loaded
     /\ HasWavSuffix(last.path)
     /\ ValidWav(last.file) /\ last.file.frames >= 1000)
        => /\ last.returned
           /\ Called("whisper_full")
           /\ last.ret \notin {"Error: Model not initialized",
                               "Error: Failed to read audio file",
                               "Error: Audio file too short"}
           /\ (last.ret = "Error: Failed to process audio") <=> (last.inf.rc # 0)
           /\ (last.inf.rc = 0 /\ last.inf.segs = <<>>)
                 => last.ret = "No speech detected"
           /\ (last.inf.rc = 0 /\ last.inf.segs # <<>>)
                 => /\ Len(last.ret) > 0
                    /\ last.ret \notin ErrorStrings \cup {"No speech detected"}

\* A valid file whose inference run failed.
C2_Witness ==
    /\ Transcribed /\ Loaded
    /\ last.path = "a.wav"
    /\ ValidWav(last.file) /\ last.file.frames = 1000
    /\ last.inf.rc # 0
    /\ last.ret = "Error: Failed to process audio"

----------------------------------------------------------------------------
(* C6: with a model loaded and a successful decode, inference is invoked    *)
(* iff the decoded buffer has at least 1000 samples; a shorter buffer (999) *)
(* returns "Error: Audio file too short" without inference.                 *)
C6_LengthGate ==
    DecodedOk =>
        /\ last.pcm.size = ExpectedSamples(last.file)
        /\ Called("whisper_full") <=> ExpectedSamples(last.file) >= 1000
        /\ (last.ret = "Error: Audio file too short")
              <=> ExpectedSamples(last.file) <= 999

\* A buffer of exactly 1000 samples reaching inference.
C6_Witness ==
    /\ DecodedOk
    /\ last.pcm.size = 1000
    /\ Called("whisper_full")

\* A buffer of exactly 999 samples stopped before inference.
C6_Witness999 ==
    /\ DecodedOk
    /\ last.pcm.size = 999
    /\ ~Called("whisper_full")
    /\ last.ret = "Error: Audio file too short"

----------------------------------------------------------------------------
(* C7: when inference succeeds with n >= 1 segments the transcript is each  *)
(* segment's text followed by one space, in index order 0..n-1, trailing    *)
(* space included, each segment read exactly once.                          *)
C7_SegmentOrder ==
    (/\ Transcribed /\ last.returned /\ Called("whisper_full")
     /\ last.inf.rc = 0 /\ Len(last.inf.segs) >= 1)
        => /\ last.ret = Joined(last.inf.segs)
           /\ Cardinality({i \in 1..Len(last.trace) :
                             last.trace[i] = "whisper_full_get_segment_text"})
                 = Len(last.inf.segs)

\* Segments "Hello", "world" give "Hello world ".
C7_Witness ==
    /\ Transcribed
    /\ last.inf.rc = 0
    /\ last.inf.segs = <<"Hello", "world">>
    /\ last.ret = "Hello world "

----------------------------------------------------------------------------
(* C8: transcribeAudio returns the literal "No speech detected" exactly     *)
(* when inference succeeded and produced zero segments.                     *)
C8_NoSpeech ==
    Transcribed =>
        ((last.returned /\ last.ret = "No speech detected")
            <=> (/\ Called("whisper_full")
                 /\ last.inf.rc = 0
                 /\ Len(last.inf.segs) = 0))

\* A run with zero segments.
C8_Witness ==
    /\ Transcribed /\ Loaded
    /\ Called("whisper_full_n_segments")
    /\ last.inf.segs = <<>>
    /\ last.ret = "No speech detected"

\* A lone segment reading "No speech detected" is a transcript, not the sentinel.
C8_WitnessSegment ==
    /\ Transcribed
    /\ last.inf.rc = 0
    /\ last.inf.segs = <<"No speech detected">>
    /\ last.ret = "No speech detected "

----------------------------------------------------------------------------
(* C9: a path that does not end in ".wav" (no extension included) fails as  *)
(* unsupported whatever the file holds: neither WAV parsing nor the raw-PCM *)
(* fallback is attempted on it.                                             *)
C9_NonWavRejected ==
    (Transcribed /\ Loaded /\ ~HasWavSuffix(last.path))
        => /\ last.returned
           /\ last.ret = "Error: Failed to read audio file"
           /\ Called("read_audio_file")
           /\ ~Called("drwav_init_file")
           /\ ~Called("ifstream_open")
           /\ ~Called("whisper_full")

\* Valid raw PCM under another suffix.
C9_Witness ==
    /\ Transcribed /\ Loaded
    /\ last.path = "a.mp3"
    /\ last.file.kind = "raw" /\ last.file.size = 2000
    /\ last.ret = "Error: Failed to read audio file"

----------------------------------------------------------------------------
(* C10, as stated: for a ".wav"-suffixed file that is no WAV container the  *)
(* decoder falls back to raw PCM; a file of N bytes that can be opened      *)
(* gives floor(N/2) samples, each its 16-bit value over 32768, and the      *)
(* decode fails only when the file cannot be opened.                        *)
C10_RawFallback ==
    (/\ Transcribed /\ Loaded
     /\ HasWavSuffix(last.path)
     /\ last.file.kind # "wav")
        => /\ Called("ifstream_open")
           /\ last.file.kind = "missing"
                 => last.returned /\ last.ret = "Error: Failed to read audio file"
           /\ last.file.kind = "raw"
                 => /\ last.returned
                    /\ last.ret # "Error: Failed to read audio file"
                    /\ last.pcm.size = last.file.size \div 2
                    /\ \A i \in 1..Len(last.pcm.head) :
                          last.pcm.head[i] =
                             LET u == BytePattern[2 * i - 1] + 256 * BytePattern[2 * i]
                             IN IF u >= 32768 THEN u - 65536 ELSE u

----------------------------------------------------------------------------
(* C11: when WAV parsing succeeds but the file has a channel count other    *)
(* than 1, or a sample rate other than 16000, the decode fails for good     *)
(* with the channel error, respectively the sample-rate error: the raw-PCM  *)
(* fallback is not taken and no samples are produced.  The fallback is      *)
(* reached only when the container fails to open or parse.                  *)
C11_ValidationTerminal ==
    (Transcribed /\ Loaded /\ HasWavSuffix(last.path))
        => /\ (last.file.kind = "wav" /\ last.file.channels # 1)
                 => /\ Called("LOGE: WAV file must be mono")
                    /\ ~Called("LOGE: WAV file must be 16kHz")
           /\ (last.file.kind = "wav" /\ last.file.channels = 1
                 /\ last.file.sampleRate # 16000)
                 => /\ Called("LOGE: WAV file must be 16kHz")
                    /\ ~Called("LOGE: WAV file must be mono")
           /\ (last.file.kind = "wav" /\ ~ValidWav(last.file))
                 => /\ last.returned
                    /\ last.ret = "Error: Failed to read audio file"
                    /\ ~Called("ifstream_open")
                    /\ ~Called("ifstream_read")
                    /\ ~Called("drwav_read_pcm_frames_f32")
                    /\ last.pcm = NoPcm
           /\ Called("ifstream_open") => last.file.kind # "wav"

\* A well-formed mono WAV file at 44100 Hz.
C11_Witness ==
    /\ Transcribed /\ Loaded
    /\ last.path = "a.wav"
    /\ last.file.kind = "wav"
    /\ last.file.channels = 1 /\ last.file.sampleRate = 44100
    /\ last.file.frames = 1000
    /\ last.ret = "Error: Failed to read audio file"

\* A well-formed 16000 Hz WAV file with two channels.
C11_WitnessStereo ==
    /\ Transcribed /\ Loaded
    /\ last.path = "a.wav"
    /\ last.file.kind = "wav"
    /\ last.file.channels = 2 /\ last.file.sampleRate = 16000
    /\ Called("LOGE: WAV file must be mono")

----------------------------------------------------------------------------
\* The returned string belongs to the stage that produced it.
ReturnedByOwnStage ==
    /\ \/ last.ret \in ErrorStrings \cup {"No speech detected"}
       \/ /\ Called("whisper_full") /\ last.inf.rc = 0 /\ last.inf.segs # <<>>
          /\ last.ret = Joined(last.inf.segs)
    /\ (last.ret = "Error: Model not initialized") <=> ~Loaded
    /\ (last.ret = "Error: Failed to read audio file")
          => Loaded /\ Called("read_audio_file") /\ ~Called("whisper_full")
                /\ last.pcm = NoPcm
    /\ (last.ret = "Error: Audio file too short")
          => Loaded /\ Called("read_audio_file") /\ ~Called("whisper_full")
                /\ last.pcm.size < 1000
    /\ (last.ret = "Error: Failed to process audio")
          => Called("whisper_full") /\ last.inf.rc # 0
    /\ (last.ret = "No speech detected")
          => Called("whisper_full") /\ last.inf.rc = 0 /\ last.inf.segs = <<>>

(* C12, as stated: every transcribeAudio call, in every session state and   *)
(* for every input, ends by returning exactly one string: the assembled     *)
(* transcript or one of the five literals, each literal returned only by    *)
(* its own stage of the pipeline.                                           *)
C12_AlwaysReturns ==
    Transcribed => (last.returned /\ ReturnedByOwnStage)

\* The same for the calls that do return.
C12_ReturnedCalls ==
    (Transcribed /\ last.returned) => ReturnedByOwnStage

----------------------------------------------------------------------------
(* C15: when whisper_full returns non-zero the call returns exactly         *)
(* "Error: Failed to process audio": no segment count or text is read and   *)
(* no part of a transcript is returned, whatever segments the failed run    *)
(* left behind.                                                             *)
C15_InferenceFailed ==
    (Transcribed /\ Called("whisper_full") /\ last.inf.rc # 0)
        => /\ last.returned
           /\ last.ret = "Error: Failed to process audio"
           /\ ~Called("whisper_full_n_segments")
           /\ ~Called("whisper_full_get_segment_text")

\* A failed run that had already stored a segment.
C15_Witness ==
    /\ Transcribed /\ Loaded
    /\ Called("whisper_full")
    /\ last.inf.rc # 0
    /\ last.inf.segs = <<"Hello">>
    /\ last.ret = "Error: Failed to process audio"

----------------------------------------------------------------------------
\* How many times the most recent bridge call made the call named e.
Count(e) == Cardinality({i \in 1..Len(last.trace) : last.trace[i] = e})

\* The decoder fails on this path and file: unsupported suffix, channel count
\* other than 1, sample rate other than 16000, or a file that cannot be opened.
DecoderFails(p, f) ==
    \/ ~HasWavSuffix(p)
    \/ f.kind = "wav" /\ f.channels # 1
    \/ f.kind = "wav" /\ f.sampleRate # 16000
    \/ f.kind = "missing"

(* C14: within one transcribeAudio call the stages run in the order ready   *)
(* check, decode, length validation, inference, assembly, each at most      *)
(* once: no decode without a loaded model, one decode and one inference at  *)
(* most, inference only after a successful decode of at least 1000 samples, *)
(* segments read only after a successful inference, and nothing run after   *)
(* the stage that failed.                                                   *)
C14_StageOrder ==
    Transcribed =>
        /\ Count("read_audio_file") <= 1
        /\ Count("whisper_full") <= 1
        /\ Count("whisper_full_n_segments") <= 1
        /\ Called("read_audio_file") => Loaded
        /\ Called("whisper_full")
              => /\ FirstCall("read_audio_file") < FirstCall("whisper_full")
                 /\ ~DecoderFails(last.path, last.file)
                 /\ ExpectedSamples(last.file) >= 1000
        /\ Called("whisper_full_n_segments")
              => /\ FirstCall("whisper_full") < FirstCall("whisper_full_n_segments")
                 /\ last.inf.rc = 0
        /\ Called("whisper_full_get_segment_text")
              => FirstCall("whisper_full_n_segments")
                    < FirstCall("whisper_full_get_segment_text")
        /\ ~Loaded => ~Called("read_audio_file")
        /\ (Loaded /\ DecoderFails(last.path, last.file)) => ~Called("whisper_full")
        /\ (Called("whisper_full") /\ last.inf.rc # 0)
              => ~Called("whisper_full_n_segments")

\* A call that ran every stage.
C14_Witness ==
    /\ Transcribed /\ Loaded
    /\ Count("read_audio_file") = 1
    /\ Count("whisper_full") = 1
    /\ Count("whisper_full_get_segment_text") = 2
    /\ last.ret = "Hello world "

\* A call whose inference failed.
C14_WitnessFailed ==
    /\ Transcribed /\ Loaded
    /\ Count("whisper_full") = 1
    /\ last.ret = "Error: Failed to process audio"

----------------------------------------------------------------------------
(* C16: with a model loaded, every decoder failure (unsupported suffix,     *)
(* channel count other than 1, sample rate other than 16000, file not       *)
(* openable in the fallback) makes the call return exactly "Error: Failed   *)
(* to read audio file"; the length check and inference are not reached.     *)
C16_DecodeFailure ==
    (Transcribed /\ Loaded /\ DecoderFails(last.path, last.file))
        => /\ last.returned
           /\ last.ret = "Error: Failed to read audio file"
           /\ ~Called("whisper_full")
           /\ last.pcm = NoPcm

\* A ".wav" path that cannot be opened at all.
C16_Witness ==
    /\ Transcribed /\ Loaded
    /\ last.path = "a.wav"
    /\ last.file.kind = "missing"
    /\ Called("ifstream_open")
    /\ last.ret = "Error: Failed to read audio file"

----------------------------------------------------------------------------
(* C17: transcribeAudio leaves the session as it found it: the same         *)
(* context, or none, is loaded after the call as before, whatever the call  *)
(* returned.  So a transcription of a good file succeeds right after        *)
(* another transcription, failed or not, and an initModel of a loadable     *)
(* file succeeds right after a failed initModel.                            *)
C17_SessionKept ==
    /\ Transcribed
          => /\ ctx = last.pre_ctx
             /\ live = (IF last.pre_ctx = NULLPTR THEN {} ELSE {last.pre_ctx})
             /\ (lastLifecycle = "init_ok") <=> Loaded
    /\ (/\ Transcribed /\ last.prev_op = "transcribe" /\ lastLifecycle = "init_ok"
        /\ HasWavSuffix(last.path)
        /\ ValidWav(last.file) /\ last.file.frames >= 1000
        /\ last.inf.rc = 0)
          => /\ last.returned
             /\ last.ret \notin ErrorStrings
    /\ (last.op = "init" /\ last.prev_op = "init" /\ last.model.loadable)
          => last.ret = "JNI_TRUE"

\* A successful transcription right after a failed one.
C17_Witness ==
    /\ Transcribed /\ last.prev_op = "transcribe" /\ last.prev_failed
    /\ Loaded /\ ctx = last.pre_ctx
    /\ last.ret = "Hello world "

\* A successful initModel right after a failed one.
C17_WitnessInit ==
    /\ last.op = "init" /\ last.prev_op = "init" /\ last.prev_failed
    /\ last.ret = "JNI_TRUE"
    /\ ctx # NULLPTR

----------------------------------------------------------------------------
(* C18, as stated: a decode that yields zero samples (a valid mono 16 kHz   *)
(* WAV with zero frames, an empty or a one-byte ".wav" file read as raw     *)
(* PCM) succeeds in the decoder, and with a model loaded the call returns   *)
(* "Error: Audio file too short", not "Error: Failed to read audio file".   *)
C18_ZeroSamples ==
    (/\ Transcribed /\ Loaded
     /\ HasWavSuffix(last.path)
     /\ \/ ValidWav(last.file) /\ last.file.frames = 0
        \/ last.file.kind = "raw" /\ last.file.size \in {0, 1})
        => /\ last.returned
           /\ last.ret = "Error: Audio file too short"
           /\ last.pcm.size = 0

\* The same without the one-byte file.
C18_EvenZeroSamples ==
    (/\ Transcribed /\ Loaded
     /\ HasWavSuffix(last.path)
     /\ \/ ValidWav(last.file) /\ last.file.frames = 0
        \/ last.file.kind = "raw" /\ last.file.size = 0)
        => /\ last.returned
           /\ last.ret = "Error: Audio file too short"
           /\ last.pcm.size = 0

----------------------------------------------------------------------------
(* C20: the host string is acquired and released in balance.  A             *)
(* transcribeAudio call that returns after acquiring the audio path (read   *)
(* failure, too short, inference failure, no segments, success) released it *)
(* exactly once, after its last use and before building the result; the     *)
(* not-initialized exit never acquires it; initModel acquires and releases  *)
(* the model path exactly once whether it succeeds or fails.                *)
C20_PathBalance ==
    /\ (Transcribed /\ last.returned)
          => /\ Count("GetStringUTFChars") = Count("ReleaseStringUTFChars")
             /\ Count("GetStringUTFChars") <= 1
             /\ Count("NewStringUTF") = 1
             /\ last.trace[Len(last.trace)] = "NewStringUTF"
             /\ ~Loaded <=> Count("GetStringUTFChars") = 0
             /\ Loaded => /\ last.trace[1] = "GetStringUTFChars"
                          /\ last.trace[Len(last.trace) - 1] = "ReleaseStringUTFChars"
    /\ last.op = "init"
          => /\ Count("GetStringUTFChars") = 1
             /\ Count("ReleaseStringUTFChars") = 1
             /\ FirstCall("GetStringUTFChars") < FirstCall("whisper_init_from_file")
             /\ FirstCall("whisper_init_from_file") < FirstCall("ReleaseStringUTFChars")
    /\ last.op = "free" => Count("GetStringUTFChars") = 0

\* The too-short exit, with the path acquired and released.
C20_Witness ==
    /\ Transcribed /\ Loaded
    /\ last.ret = "Error: Audio file too short"
    /\ Count("GetStringUTFChars") = 1
    /\ Count("ReleaseStringUTFChars") = 1

----------------------------------------------------------------------------
(* The same three handlers called from several host threads at once.  No    *)
(* line of the file takes a lock, so the calls interleave at every read and *)
(* write of `ctx` and every call into the inference engine.  One action per *)
(* such step, named by the handler and the line it executes.                *)

Goto(t, label) == pc' = [pc EXCEPT ![t] = label]

\* whisper_free(c) as the engine defines it: nothing for a null pointer,
\* otherwise c is destroyed, a second time if it is no longer live.
WhisperFree(c) ==
    IF c = NULLPTR
    THEN UNCHANGED <<live, badFree>>
    ELSE /\ live' = FreeLive(c)
         /\ badFree' = FreeBad(c)

\* An inference entry point handed the pointer c.
Use(c) == usedDead' = (usedDead \/ c = NULLPTR \/ c \notin live)

\* A thread with no call in flight enters one of the three handlers.
Call(t) ==
    /\ ~crashed /\ pc[t] = "idle"
    /\ \E entry \in {"init_32", "transcribe_53", "free_121"} : Goto(t, entry)
    /\ tl' = [tl EXCEPT ![t] = NoLocals]
    /\ UNCHANGED <<ctx, live, badFree, crashed, lastLifecycle, last, usedDead>>

\* Line 32: if (ctx != nullptr)
Init_32(t) ==
    /\ ~crashed /\ pc[t] = "init_32"
    /\ Goto(t, IF ctx # NULLPTR THEN "init_33" ELSE "init_38")
    /\ UNCHANGED <<ctx, live, badFree, crashed, lastLifecycle, last, tl, usedDead>>

\* Line 33: whisper_free(ctx)
Init_33(t) ==
    /\ ~crashed /\ pc[t] = "init_33"
    /\ WhisperFree(ctx)
    /\ Goto(t, "init_34")
    /\ UNCHANGED <<ctx, crashed, lastLifecycle, last, tl, usedDead>>

\* Line 34: ctx = nullptr
Init_34(t) ==
    /\ ~crashed /\ pc[t] = "init_34"
    /\ ctx' = NULLPTR
    /\ Goto(t, "init_38")
    /\ UNCHANGED <<live, badFree, crashed, lastLifecycle, last, tl, usedDead>>

\* Line 38, the call: whisper_init_from_file(path) creates a context or fails.
Init_38_call(t) ==
    /\ ~crashed /\ pc[t] = "init_38"
    /\ \E m \in ModelFiles :
         LET fresh == whisper_init_from_file(m, live)
         IN \E a \in (IF fresh = {} THEN {NULLPTR} ELSE fresh) :
              /\ live' = live \cup ({a} \ {NULLPTR})
              /\ tl' = [tl EXCEPT ![t].c = a]
    /\ Goto(t, "init_38_store")
    /\ UNCHANGED <<ctx, badFree, crashed, lastLifecycle, last, usedDead>>

\* Line 38, the assignment: ctx = the pointer the call returned; lines 39-47.
Init_38_store(t) ==
    /\ ~crashed /\ pc[t] = "init_38_store"
    /\ ctx' = tl[t].c
    /\ Goto(t, "idle")
    /\ UNCHANGED <<live, badFree, crashed, lastLifecycle, last, tl, usedDead>>

\* Line 121: if (ctx != nullptr)
Free_121(t) ==
    /\ ~crashed /\ pc[t] = "free_121"
    /\ Goto(t, IF FreeGuard THEN "free_122" ELSE "idle")
    /\ UNCHANGED <<ctx, live, badFree, crashed, lastLifecycle, last, tl, usedDead>>

\* Line 122: whisper_free(ctx)
Free_122(t) ==
    /\ ~crashed /\ pc[t] = "free_122"
    /\ WhisperFree(ctx)
    /\ Goto(t, "free_123")
    /\ UNCHANGED <<ctx, crashed, lastLifecycle, last, tl, usedDead>>

\* Line 123: ctx = nullptr
Free_123(t) ==
    /\ ~crashed /\ pc[t] = "free_123"
    /\ ctx' = CtxAfterFree
    /\ Goto(t, "idle")
    /\ UNCHANGED <<live, badFree, crashed, lastLifecycle, last, tl, usedDead>>

\* Lines 53-56: the ready check.
Transcribe_53(t) ==
    /\ ~crashed /\ pc[t] = "transcribe_53"
    /\ Goto(t, IF NotInitialized THEN "idle" ELSE "transcribe_63")
    /\ UNCHANGED <<ctx, live, badFree, crashed, lastLifecycle, last, tl, usedDead>>

\* Lines 58-76: the decode and the length check, on the thread's own buffer.
Transcribe_63(t) ==
    /\ ~crashed /\ pc[t] = "transcribe_63"
    /\ \E audioPath \in Paths, f \in Files, ub \in UbOutcomes :
         LET d == read_audio_file(audioPath, f, ub)
         IN IF d.status = "crash"
            THEN crashed' = TRUE /\ UNCHANGED pc
            ELSE /\ UNCHANGED crashed
                 /\ Goto(t, IF d.status = "fail" \/ TooShort(d.pcmf32)
                            THEN "idle" ELSE "transcribe_90")
    /\ UNCHANGED <<ctx, live, badFree, lastLifecycle, last, tl, usedDead>>

\* Line 90, the call: whisper_full is entered with the value `ctx` has now.
Transcribe_90_call(t) ==
    /\ ~crashed /\ pc[t] = "transcribe_90"
    /\ Use(ctx)
    /\ tl' = [tl EXCEPT ![t].c = ctx]
    /\ Goto(t, "transcribe_90_run")
    /\ UNCHANGED <<ctx, live, badFree, crashed, lastLifecycle, last>>

\* Line 90, the return: whisper_full has worked on the pointer it was given.
Transcribe_90_run(t) ==
    /\ ~crashed /\ pc[t] = "transcribe_90_run"
    /\ Use(tl[t].c)
    /\ \E rc \in {0, 1} : Goto(t, IF rc # 0 THEN "idle" ELSE "transcribe_98")
    /\ UNCHANGED <<ctx, live, badFree, crashed, lastLifecycle, last, tl>>

\* Lines 98-105: whisper_full_n_segments(ctx) and the zero-segment return.
Transcribe_98(t) ==
    /\ ~crashed /\ pc[t] = "transcribe_98"
    /\ Use(ctx)
    /\ \E n_segments \in 0..MaxSegs :
         /\ tl' = [tl EXCEPT ![t].n = n_segments, ![t].i = 0]
         /\ Goto(t, IF n_segments = 0 THEN "idle" ELSE "transcribe_108")
    /\ UNCHANGED <<ctx, live, badFree, crashed, lastLifecycle, last>>

\* Lines 107-115: one whisper_full_get_segment_text(ctx, i) of the loop.
Transcribe_108(t) ==
    /\ ~crashed /\ pc[t] = "transcribe_108"
    /\ Use(ctx)
    /\ tl' = [tl EXCEPT ![t].i = tl[t].i + 1]
    /\ Goto(t, IF tl[t].i + 1 < tl[t].n THEN "transcribe_108" ELSE "idle")
    /\ UNCHANGED <<ctx, live, badFree, crashed, lastLifecycle, last>>

NextConc ==
    \E t \in Threads :
        \/ Call(t)
        \/ Init_32(t)
        \/ Init_33(t)
        \/ Init_34(t)
        \/ Init_38_call(t)
        \/ Init_38_store(t)
        \/ Free_121(t)
        \/ Free_122(t)
        \/ Free_123(t)
        \/ Transcribe_53(t)
        \/ Transcribe_63(t)
        \/ Transcribe_90_call(t)
        \/ Transcribe_90_run(t)
        \/ Transcribe_98(t)
        \/ Transcribe_108(t)

SpecConc == Init /\ [][NextConc]_vars

\* No call is in flight.
AllReturned == \A t \in Threads : pc[t] = "idle"

----------------------------------------------------------------------------
(* C13, as stated: in every interleaving of initModel, transcribeAudio and  *)
(* freeModel calls of concurrent threads, inference, the segment count and  *)
(* the segment texts are never asked of a null or already freed context.    *)
C13_ContextAlive == ~usedDead

----------------------------------------------------------------------------
(* C19, as stated: in every interleaving of concurrent initModel and        *)
(* freeModel calls no context is freed twice, and once all calls have       *)
(* returned at most one context is live, the one `ctx` holds.               *)
C19_NoDoubleFreeNoLeak ==
    /\ ~badFree
    /\ AllReturned => /\ Cardinality(live) <= 1
                      /\ live = (IF ctx = NULLPTR THEN {} ELSE {ctx})

====
